---- MODULE Spec2Model ----
(***************************************************************************)
(* Model of the Meshtastic MQTT time service                               *)
(* (src/service/mqtt_time_service.py).                                     *)
(*                                                                         *)
(* Text (topics, topic segments, payload text, trigger words) is a         *)
(* sequence of one-character strings, so that split, lstrip, lower,        *)
(* substring search and base-16 parsing are computed character by          *)
(* character as Python computes them.                                      *)
(*                                                                         *)
(* Python integers are unbounded; an integer produced by int(s, 16) is a   *)
(* record [neg, mag] whose mag is the sequence of its decimal digits, most *)
(* significant first, without leading zeros (zero is <<0>>).               *)
(***************************************************************************)
EXTENDS Integers, Sequences, FiniteSets, TLC

VARIABLES
    env,            \* the process environment read at import (lines 34-40)
    TIME_TRIGGER,   \* module global, line 39
    TIMEZONE,       \* module global, line 38
    BOT_NODE_ID,    \* module global, line 40
    conn,           \* transport: "connecting", "connected", "disconnected", "crashed"
    subscribed,     \* whether the broker holds the subscription msh/+/2/json/#
    connectLog,     \* log calls of the last on_connect / on_disconnect
    msg,            \* the inbound message being handled, or NoMsg
    result,         \* what the last on_message call did, or NoResult
    rt,             \* hex <-> decimal round trip of one identifier
    broker,         \* the service's own publishes the broker routes back to it
    origin,         \* where the message being handled came from
    counts,         \* how often the callbacks ran and what they issued
    probe           \* one earlier delivery and the decision taken on it

vars == <<env, TIME_TRIGGER, TIMEZONE, BOT_NODE_ID, conn, subscribed,
          connectLog, msg, result, rt, broker, origin, counts, probe>>

\* the variables that observe a run; the callbacks neither read nor write them
observers == <<broker, origin, counts, probe>>

-----------------------------------------------------------------------------
(* Text helpers *)

UpperChars == <<"A","B","C","D","E","F","G","H","I","J","K","L","M",
                "N","O","P","Q","R","S","T","U","V","W","X","Y","Z">>
LowerChars == <<"a","b","c","d","e","f","g","h","i","j","k","l","m",
                "n","o","p","q","r","s","t","u","v","w","x","y","z">>

\* str.lower() on one character
LowerChar(c) ==
    IF \E i \in 1..26 : UpperChars[i] = c
    THEN LowerChars[CHOOSE i \in 1..26 : UpperChars[i] = c]
    ELSE c

\* str.lower()
Lower(s) == [i \in 1..Len(s) |-> LowerChar(s[i])]

\* needle in hay  (Python substring test)
Contains(needle, hay) ==
    \E i \in 0..(Len(hay) - Len(needle)) :
        SubSeq(hay, i + 1, i + Len(needle)) = needle

RECURSIVE SplitAcc(_, _, _)
SplitAcc(rest, cur, parts) ==
    IF rest = <<>> THEN Append(parts, cur)
    ELSE IF Head(rest) = "/"
         THEN SplitAcc(Tail(rest), <<>>, Append(parts, cur))
         ELSE SplitAcc(Tail(rest), Append(cur, Head(rest)), parts)

\* topic.split("/")
Split(s) == SplitAcc(s, <<>>, <<>>)

RECURSIVE Join(_)
\* "/".join(segs); used to build the inbound topics
Join(segs) ==
    IF Len(segs) = 0 THEN <<>>
    ELSE IF Len(segs) = 1 THEN segs[1]
    ELSE segs[1] \o <<"/">> \o Join(Tail(segs))

RECURSIVE LStrip(_, _)
\* s.lstrip(c): every leading occurrence of c is removed
LStrip(s, c) ==
    IF s # <<>> /\ Head(s) = c THEN LStrip(Tail(s), c) ELSE s

\* s.startswith(p)
StartsWith(s, p) == Len(s) >= Len(p) /\ SubSeq(s, 1, Len(p)) = p

-----------------------------------------------------------------------------
(* Unbounded integers as decimal digit sequences *)

Zero == [neg |-> FALSE, mag |-> <<0>>]

RECURSIVE StripZeros(_)
StripZeros(ds) ==
    IF Len(ds) > 1 /\ Head(ds) = 0 THEN StripZeros(Tail(ds)) ELSE ds

RECURSIVE MulAddAcc(_, _, _, _, _)
\* digits ds[1..i] still to process, least significant first; out is the
\* part of the result already produced
MulAddAcc(ds, i, m, carry, out) ==
    IF i = 0
    THEN IF carry = 0 THEN out
         ELSE MulAddAcc(ds, 0, m, carry \div 10, <<carry % 10>> \o out)
    ELSE LET cur == ds[i] * m + carry
         IN MulAddAcc(ds, i - 1, m, cur \div 10, <<cur % 10>> \o out)

\* mag * m + a  on digit sequences (0 <= a < m <= 16)
MulAdd(mag, m, a) == StripZeros(MulAddAcc(mag, Len(mag), m, a, <<>>))

RECURSIVE DivAcc(_, _, _, _, _)
DivAcc(ds, i, m, rem, out) ==
    IF i > Len(ds) THEN [q |-> StripZeros(IF out = <<>> THEN <<0>> ELSE out), r |-> rem]
    ELSE LET cur == rem * 10 + ds[i]
         IN DivAcc(ds, i + 1, m, cur % m, Append(out, cur \div m))

\* divmod(mag, m) on digit sequences
DivMod(mag, m) == DivAcc(mag, 1, m, 0, <<>>)

MagLessSameLen(a, b) ==
    \E i \in 1..Len(a) :
        /\ a[i] < b[i]
        /\ \A j \in 1..(i - 1) : a[j] = b[j]
MagLess(a, b) ==
    IF Len(a) # Len(b) THEN Len(a) < Len(b) ELSE MagLessSameLen(a, b)

-----------------------------------------------------------------------------
(* int(s, 16) as CPython computes it (PyLong_FromString with base 16):     *)
(* leading whitespace, an optional sign, an optional 0x / 0X prefix that   *)
(* may be followed by one underscore, hex digits separated by single       *)
(* underscores, trailing whitespace.                                       *)

HexChars == <<"0","1","2","3","4","5","6","7","8","9","a","b","c","d","e","f">>

IsHexChar(c) == \E i \in 1..16 : HexChars[i] = LowerChar(c)

\* _PyLong_DigitValue
DigitValue(c) == (CHOOSE i \in 1..16 : HexChars[i] = LowerChar(c)) - 1

IsSpace(c) == c \in {" ", "\t"}

RECURSIVE SkipSpaces(_)
SkipSpaces(s) ==
    IF s # <<>> /\ IsSpace(Head(s)) THEN SkipSpaces(Tail(s)) ELSE s

RECURSIVE ScanDigits(_, _, _, _, _)
\* the digit loop: stops at the first character that is no digit of the
\* base and no underscore
ScanDigits(s, base, prev, mag, n) ==
    IF s # <<>> /\ (IsHexChar(Head(s)) \/ Head(s) = "_")
    THEN IF Head(s) = "_"
         THEN IF prev = "_"
              THEN [ok |-> FALSE, rest |-> s, mag |-> mag, n |-> n]
              ELSE ScanDigits(Tail(s), base, "_", mag, n)
         ELSE ScanDigits(Tail(s), base, Head(s),
                         MulAdd(mag, base, DigitValue(Head(s))), n + 1)
    ELSE [ok |-> prev # "_", rest |-> s, mag |-> mag, n |-> n]

ValueError == [ok |-> FALSE]

\* int(s, 16): [ok |-> TRUE, val |-> integer] or ValueError
PyInt16(s) ==
    LET s1 == SkipSpaces(s)
        hasSign == s1 # <<>> /\ Head(s1) \in {"+", "-"}
        neg == s1 # <<>> /\ Head(s1) = "-"
        s2 == IF hasSign THEN Tail(s1) ELSE s1
        hasPrefix == Len(s2) >= 2 /\ s2[1] = "0" /\ s2[2] \in {"x", "X"}
        s3 == IF hasPrefix THEN SubSeq(s2, 3, Len(s2)) ELSE s2
        s4 == IF hasPrefix /\ s3 # <<>> /\ Head(s3) = "_" THEN Tail(s3) ELSE s3
    IN  IF s4 # <<>> /\ Head(s4) = "_" THEN ValueError
        ELSE LET scan == ScanDigits(s4, 16, "", <<0>>, 0)
             IN IF ~scan.ok \/ scan.n = 0 \/ SkipSpaces(scan.rest) # <<>>
                THEN ValueError
                ELSE [ok |-> TRUE,
                      val |-> [neg |-> neg /\ scan.mag # <<0>>,
                               mag |-> scan.mag]]

\* A slice hex_id[1:-1] instead of lstrip: the last digit is lost
hex_node_id_to_decimal_slice(hex_id) ==
    PyInt16(SubSeq(hex_id, 2, Len(hex_id) - 1))

\* hex_node_id_to_decimal, lines 60-62
hex_node_id_to_decimal(hex_id) == PyInt16(LStrip(hex_id, "!"))

RECURSIVE HexDigitsOf(_, _)
\* lower-case hex digits of a magnitude, most significant first
HexDigitsOf(mag, out) ==
    IF mag = <<0>> THEN out
    ELSE LET dm == DivMod(mag, 16)
         IN HexDigitsOf(dm.q, <<HexChars[dm.r + 1]>> \o out)

RECURSIVE PadLeft(_, _, _)
PadLeft(s, c, width) ==
    IF Len(s) >= width THEN s ELSE PadLeft(<<c>> \o s, c, width)

\* The rendering of a node number as a "!"-prefixed identifier of at least
\* 8 lower-case hex digits (section 6 of the specification)
hexOf(n) == <<"!">> \o PadLeft(HexDigitsOf(n.mag, <<>>), "0", 8)

-----------------------------------------------------------------------------
(* Text constants *)

msh      == <<"m","s","h">>
two      == <<"2">>
json     == <<"j","s","o","n">>
mqtt     == <<"m","q","t","t">>
MQTT_UP  == <<"M","Q","T","T">>
LongFast == <<"L","o","n","g","F","a","s","t">>
US       == <<"U","S">>
EU_868   == <<"E","U","_","8","6","8">>
text     == <<"t","e","x","t">>
position == <<"p","o","s","i","t","i","o","n">>
empty    == <<>>

gw_aabbccdd == <<"!","a","a","b","b","c","c","d","d">>
gw_ffffffff == <<"!","f","f","f","f","f","f","f","f">>
gw_nobang   == <<"a","a","b","b","c","c","d","d">>
gw_2bang    == <<"!","!","a","b">>
gw_nonhex   == <<"!","z","z">>
gw_bang     == <<"!">>
gw_minus    == <<"!","-","a","b">>
gw_0x       == <<"!","0","x","A","B">>
gw_under    == <<"!","a","_","b">>
gw_space    == <<"!"," ","a","b">>
gw_9digits  == <<"!","1","0","0","0","0","0","0","0","0">>

bang_time       == <<"!","t","i","m","e">>
bang_TIME       == <<"!","T","I","M","E">>
now_word        == <<"n","o","w">>
hey_time_please == <<"h","e","y"," ","!","t","i","m","e"," ","p","l","e","a","s","e">>
hello_there     == <<"h","e","l","l","o"," ","t","h","e","r","e">>
send_TIME_now   == <<"P","l","e","a","s","e"," ","s","e","n","d"," ",
                     "!","T","I","M","E"," ","n","o","w">>
abc             == <<"a","b","c">>
bot_deadbeef    == <<"!","d","e","a","d","b","e","e","f">>

-----------------------------------------------------------------------------
(* JSON values, as json.loads returns them *)

Absent     == [t |-> "absent"]        \* a key the object does not hold
JNull      == [t |-> "null"]          \* None
JTrue      == [t |-> "bool", b |-> TRUE]
JInt(n)    == [t |-> "int", i |-> n]
JFloat     == [t |-> "float"]         \* 1.5
JStr(s)    == [t |-> "str", s |-> s]
JArray     == [t |-> "array"]         \* []
JObject(ty, pl, fr) == [t |-> "object", type |-> ty, payload |-> pl, from |-> fr]

\* dict.get(key, default) on a decoded object
Get(data, key, default) ==
    LET v == CASE key = "type"    -> data.type
               [] key = "payload" -> data.payload
               [] key = "from"    -> data.from
    IN  IF v = Absent THEN default ELSE v

\* message.payload: the bytes, by what decode("utf-8") and json.loads make
\* of them
BadUtf8          == [enc |-> "bad_utf8"]
BadJson          == [enc |-> "bad_json"]
JsonBytes(value) == [enc |-> "json", value |-> value]

\* json.loads(message.payload.decode("utf-8")), line 111
json_loads_decode(bytes) ==
    IF bytes.enc = "bad_utf8" THEN [exc |-> "UnicodeDecodeError"]
    ELSE IF bytes.enc = "bad_json" THEN [exc |-> "JSONDecodeError"]
    ELSE [exc |-> "", value |-> bytes.value]

\* hex(x) succeeds on int and bool and raises TypeError on anything else
HexRaises(v) == v.t \notin {"int", "bool"}

\* pytz.timezone(name) raises UnknownTimeZoneError outside the database
KnownZones == {"UTC", "Europe/Berlin"}

-----------------------------------------------------------------------------
(* Configuration, lines 34-40 *)

\* os.getenv(name, default); an environment entry is <<>> when unset and
\* <<value>> when set
Getenv(e, name, default) == IF e[name] = <<>> THEN default ELSE e[name][1]

Environments ==
    [TIME_TRIGGER : {<<>>, <<bang_TIME>>, <<now_word>>},
     TIMEZONE     : {<<>>, <<"Mars/Olympus">>},
     BOT_NODE_ID  : {<<>>, <<bot_deadbeef>>}]

-----------------------------------------------------------------------------
(* on_message, lines 83-168 *)

Log(level, line) == [level |-> level, line |-> line]

\* The handler returned at `line`, having made these log calls
Return(line, logs) ==
    [exit |-> line, raised |-> "", publishes |-> <<>>, logs |-> logs]

\* The handler left through an exception raised at `line`
Raise(line, exc, logs) ==
    [exit |-> line, raised |-> exc, publishes |-> <<>>, logs |-> logs]

\* len(parts) < 5: an off-by-one in the segment count
TooFewParts_offbyone(parts) == Len(parts) < 5

\* len(parts) < 6, line 96
TooFewParts(parts) == Len(parts) < 6

\* a case-insensitive comparison with the reserved channel name
IsOwnChannel_upper(channel) == channel = MQTT_UP

\* channel == "mqtt", line 104
IsOwnChannel(channel) == channel = mqtt

\* an except clause that names JSONDecodeError alone
DecodeErrorCaught_json_only(exc) == exc = "JSONDecodeError"

\* except (json.JSONDecodeError, UnicodeDecodeError), line 112
DecodeErrorCaught(exc) == exc \in {"JSONDecodeError", "UnicodeDecodeError"}

\* msg_type != "text" or not isinstance(payload, str), line 120
NotPlainText(msg_type, payload) ==
    \/ msg_type.t # "str"
    \/ msg_type.s # text
    \/ payload.t # "str"

\* the payload text compared without lower()
TriggerAbsent_nolower(trigger, payload_text) == ~Contains(trigger, payload_text)

\* TIME_TRIGGER not in payload.lower(), line 124
TriggerAbsent(trigger, payload_text) == ~Contains(trigger, Lower(payload_text))

\* sender_decimal is None, line 128
SenderMissing(sender_decimal) == sender_decimal.t = "null"

\* the sender looked up before the trigger word
trigger_filter_sender_first(data) ==
    LET msg_type == Get(data, "type", JStr(empty))
        payload  == Get(data, "payload", JStr(empty))
    IN  IF NotPlainText(msg_type, payload) THEN 121
        ELSE IF SenderMissing(Get(data, "from", JNull)) THEN 130
        ELSE IF TriggerAbsent(TIME_TRIGGER, payload.s) THEN 125
        ELSE 0

\* lines 116-130: the line of the return that rejects the decoded object,
\* or 0 when it passes
trigger_filter(data) ==
    LET msg_type == Get(data, "type", JStr(empty))
        payload  == Get(data, "payload", JStr(empty))
    IN  IF NotPlainText(msg_type, payload) THEN 121
        ELSE IF TriggerAbsent(TIME_TRIGGER, payload.s) THEN 125
        ELSE IF SenderMissing(Get(data, "from", JNull)) THEN 130
        ELSE 0

\* current_time_str, lines 53-57, at the instant `now`
current_time_str(now) ==
    IF TIMEZONE \in KnownZones
    THEN [ok |-> TRUE, str |-> [at |-> now, zone |-> TIMEZONE]]
    ELSE [ok |-> FALSE]

\* the response dict, lines 156-161
response(gateway_decimal, time_str, sender_decimal) ==
    [from    |-> gateway_decimal,
     type    |-> "sendtext",
     payload |-> [prefix |-> "Current time: ", time |-> time_str],
     to      |-> sender_decimal]

\* the downlink topic without its trailing slash
downlink_topic_noslash(region) == Join(<<msh, region, two, json, mqtt>>)
downlink_topic_longfast(region) == Join(<<msh, region, two, json, LongFast, empty>>)

\* f"msh/{region}/2/json/mqtt/", line 164
downlink_topic(region) == Join(<<msh, region, two, json, mqtt, empty>>)

\* lines 132-168
build_reply(region, channel, gateway_hex, sender_decimal, now) ==
    LET info == Log("INFO", 132)
    IN  IF ~StartsWith(gateway_hex, <<"!">>)
        THEN Return(147, <<info, Log("WARNING", 146)>>)
        ELSE LET g == hex_node_id_to_decimal(gateway_hex)
             IN IF ~g.ok
                THEN Return(153, <<info, Log("ERROR", 152)>>)
                ELSE LET t == current_time_str(now)
                     IN IF ~t.ok
                        THEN Raise(155, "UnknownTimeZoneError", <<info>>)
                        ELSE [exit      |-> 168,
                              raised    |-> "",
                              publishes |-> <<[topic   |-> downlink_topic(region),
                                               payload |-> response(g.val, t.str, sender_decimal),
                                               qos     |-> 0]>>,
                              logs      |-> <<info, Log("INFO", 168)>>]

\* on_message, lines 83-168
on_message(topic, payload_bytes, now) ==
    LET parts == Split(topic)
    IN  IF TooFewParts(parts) THEN Return(97, <<>>)
        \* parts[1], parts[4], parts[5] of a shorter list raise IndexError
        ELSE IF Len(parts) < 2 THEN Raise(99, "IndexError", <<>>)
        ELSE IF Len(parts) < 5 THEN Raise(100, "IndexError", <<>>)
        ELSE IF Len(parts) < 6 THEN Raise(101, "IndexError", <<>>)
        ELSE LET region      == parts[2]
                 channel     == parts[5]
                 gateway_hex == parts[6]
             IN IF IsOwnChannel(channel) THEN Return(105, <<>>)
                ELSE LET dec == json_loads_decode(payload_bytes)
                     IN IF dec.exc # "" /\ DecodeErrorCaught(dec.exc)
                        THEN Return(114, <<Log("DEBUG", 113)>>)
                        ELSE IF dec.exc # ""
                        THEN Raise(111, dec.exc, <<>>)
                        ELSE IF dec.value.t # "object"
                        THEN Raise(116, "AttributeError", <<>>)
                        ELSE LET f == trigger_filter(dec.value)
                                 sender_decimal == Get(dec.value, "from", JNull)
                             IN IF f = 130
                                THEN Return(130, <<Log("WARNING", 129)>>)
                                ELSE IF f # 0 THEN Return(f, <<>>)
                                ELSE IF HexRaises(sender_decimal)
                                THEN Raise(134, "TypeError", <<>>)
                                ELSE build_reply(region, channel, gateway_hex,
                                                 sender_decimal, now)

-----------------------------------------------------------------------------
(* on_connect / on_disconnect, lines 68-80, and the subscription *)

plus == <<"+">>
hash == <<"#">>

\* the topic filter of line 73, msh/+/2/json/#
SubscriptionFilter == <<msh, plus, two, json, hash>>

RECURSIVE LevelsMatch(_, _)
\* MQTT topic-filter matching on levels: + is one level, # the rest
\* (the parent level included)
LevelsMatch(filter, levels) ==
    IF filter = <<>> THEN levels = <<>>
    ELSE IF Head(filter) = hash THEN TRUE
    ELSE IF levels = <<>> THEN FALSE
    ELSE /\ (Head(filter) = plus \/ Head(filter) = Head(levels))
         /\ LevelsMatch(Tail(filter), Tail(levels))

TopicMatches(topic) == LevelsMatch(SubscriptionFilter, Split(topic))

\* on_connect subscribing whatever the reason code is
on_connect_always(reason_code) ==
    [subscribe |-> <<SubscriptionFilter>>,
     publishes |-> <<>>,
     logs      |-> IF reason_code = 0
                   THEN <<Log("INFO", 70), Log("INFO", 74)>>
                   ELSE <<Log("ERROR", 76)>>]

\* on_connect, lines 68-76
on_connect(reason_code) ==
    IF reason_code = 0
    THEN [subscribe |-> <<SubscriptionFilter>>,
          publishes |-> <<>>,
          logs      |-> <<Log("INFO", 70), Log("INFO", 74)>>]
    ELSE [subscribe |-> <<>>,
          publishes |-> <<>>,
          logs      |-> <<Log("ERROR", 76)>>]

\* on_disconnect, lines 79-80
on_disconnect ==
    [subscribe |-> <<>>, publishes |-> <<>>, logs |-> <<Log("WARNING", 80)>>]

-----------------------------------------------------------------------------
(* Inbound messages *)

Regions  == {US, EU_868}
Channels == {LongFast, mqtt}
Gateways == {gw_aabbccdd, gw_ffffffff, gw_nobang, gw_2bang, gw_nonhex, gw_bang,
             gw_minus, gw_0x, gw_under, gw_space, gw_9digits}

Topics ==
    {Join(<<msh, r, two, json, c, g>>) : r \in Regions, c \in Channels, g \in Gateways}
    \cup {Join(<<msh, US, two, json, MQTT_UP, gw_aabbccdd>>),
          Join(<<msh, US, two, json, LongFast, gw_aabbccdd, abc>>),
          Join(<<msh, US, two, json, LongFast>>),
          Join(<<msh, US, two, json, mqtt>>),
          Join(<<msh, US, two, json>>),
          Join(<<msh, US, two, json, mqtt, empty>>),
          Join(<<abc, US, two, json, LongFast, gw_aabbccdd>>)}

Texts   == {hey_time_please, hello_there, send_TIME_now, bang_time}
Senders == {Absent, JNull, JInt(0), JInt(123456), JStr(abc), JFloat}

JsonValues ==
    {JArray, JStr(bang_time), JInt(5), JTrue, JNull}
    \cup {JObject(JStr(text), pl, fr) :
            pl \in {JStr(t) : t \in Texts} \cup {Absent, JInt(5)}, fr \in Senders}
    \cup {JObject(ty, JStr(bang_time), fr) :
            ty \in {Absent, JStr(position), JInt(1)}, fr \in {Absent, JInt(123456)}}

Payloads == {BadUtf8, BadJson} \cup {JsonBytes(v) : v \in JsonValues}

\* instants of the clock read by current_time_str
Clock == {1, 2}

NoMsg    == [topic |-> <<>>, payload |-> [enc |-> "none"]]
NoResult == [exit |-> 0, raised |-> "", publishes |-> <<>>, logs |-> <<>>]

NoCounts == [external |-> 0, published |-> 0, connacks |-> 0, connected |-> 0,
             subscribes |-> 0, callbackPublishes |-> 0]
NoProbe  == [at |-> 0, msg |-> NoMsg, decision |-> <<>>]

-----------------------------------------------------------------------------
(* Round trip of one identifier *)

NHexDigits == 3

RtDigits == <<"0", "f", "a", "7", "1", "9", "c", "e", "2", "3", "4", "5", "6", "8", "b", "d">>

\* "!" followed by 8 lower-case hex digits
RtIds ==
    {<<"!">> \o d : d \in [1..8 -> {RtDigits[i] : i \in 1..NHexDigits}]}

RtIdle == [pc |-> "idle", h |-> <<>>, d1 |-> ValueError, h2 |-> <<>>, d2 |-> ValueError]

-----------------------------------------------------------------------------
(* The service *)

Configured ==
    /\ env \in Environments
    /\ TIME_TRIGGER = Lower(Getenv(env, "TIME_TRIGGER", bang_time))
    /\ TIMEZONE = Getenv(env, "TIMEZONE", "UTC")
    /\ BOT_NODE_ID = Getenv(env, "BOT_NODE_ID", empty)

\* After import and main() up to client.connect, lines 29-40 and 174-188
Init ==
    /\ Configured
    /\ conn = "connecting"
    /\ subscribed = FALSE
    /\ connectLog = <<>>
    /\ msg = NoMsg
    /\ result = NoResult
    /\ rt = RtIdle
    /\ broker = <<>>
    /\ origin = "none"
    /\ counts = NoCounts
    /\ probe = NoProbe

config == <<env, TIME_TRIGGER, TIMEZONE, BOT_NODE_ID>>

\* The broker answers the connect: the client calls on_connect
ConnackStep(reason_code) ==
    /\ conn = "connecting"
    /\ conn' = IF reason_code = 0 THEN "connected" ELSE "refused"
    /\ subscribed' = (on_connect(reason_code).subscribe # <<>>)
    /\ connectLog' = on_connect(reason_code).logs
    /\ UNCHANGED <<config, msg, result, rt>>

\* The connection is lost or closed: the client calls on_disconnect
DisconnectStep ==
    /\ conn \in {"connected", "refused"}
    /\ msg = NoMsg
    /\ conn' = "disconnected"
    /\ subscribed' = FALSE
    /\ connectLog' = on_disconnect.logs
    /\ UNCHANGED <<config, msg, result, rt>>

\* loop_forever reconnects, line 191
ReconnectStep ==
    /\ conn = "disconnected"
    /\ conn' = "connecting"
    /\ UNCHANGED <<config, subscribed, connectLog, msg, result, rt>>

\* on_message keeping what it saw: after a reply it rebinds TIME_TRIGGER to
\* the text that triggered it
OnMessageStep_rebinds_trigger(topic, payload_bytes, now) ==
    /\ conn = "connected"
    /\ subscribed
    /\ msg = NoMsg
    /\ TopicMatches(topic)
    /\ msg' = [topic |-> topic, payload |-> payload_bytes]
    /\ result' = on_message(topic, payload_bytes, now)
    /\ conn' = IF result'.raised # "" THEN "crashed" ELSE conn
    /\ TIME_TRIGGER' = IF result'.publishes # <<>>
                       THEN Lower(json_loads_decode(payload_bytes).value.payload.s)
                       ELSE TIME_TRIGGER
    /\ UNCHANGED <<env, TIMEZONE, BOT_NODE_ID, subscribed, connectLog, rt>>

\* The client delivers one message of the subscription to on_message; an
\* exception of the callback leaves loop_forever and ends the process
OnMessageStep(topic, payload_bytes, now) ==
    /\ conn = "connected"
    /\ subscribed
    /\ msg = NoMsg
    /\ TopicMatches(topic)
    /\ msg' = [topic |-> topic, payload |-> payload_bytes]
    /\ result' = on_message(topic, payload_bytes, now)
    /\ conn' = IF result'.raised # "" THEN "crashed" ELSE conn
    /\ UNCHANGED <<config, subscribed, connectLog, rt>>

\* on_message has returned: the loop waits for the next packet; nothing of
\* the call is kept
LoopNextStep ==
    /\ conn = "connected"
    /\ msg # NoMsg
    /\ msg' = NoMsg
    /\ result' = NoResult
    /\ UNCHANGED <<config, conn, subscribed, connectLog, rt>>

\* The service alone: nothing of a run is observed
Connack(reason_code) == ConnackStep(reason_code) /\ UNCHANGED observers

Disconnect == DisconnectStep /\ UNCHANGED observers

Reconnect == ReconnectStep /\ UNCHANGED observers

OnMessage(topic, payload_bytes, now) ==
    OnMessageStep(topic, payload_bytes, now) /\ UNCHANGED observers

LoopNext == LoopNextStep /\ UNCHANGED observers

Next ==
    \/ \E reason_code \in {0, 5} : Connack(reason_code)
    \/ Disconnect
    \/ Reconnect
    \/ \E topic \in Topics, payload_bytes \in Payloads, now \in Clock :
          OnMessage(topic, payload_bytes, now)
    \/ LoopNext

Spec == Init /\ [][Next]_vars

-----------------------------------------------------------------------------
(* The service together with the broker, which routes every publish that   *)
(* matches the subscription back to the service (MQTT 3.1.1 has no         *)
(* "no local" option, and line 73 asks for none)                           *)

MaxExternal == 2

sendtext            == <<"s","e","n","d","t","e","x","t">>
current_time_prefix == <<"C","u","r","r","e","n","t"," ","t","i","m","e",":"," ">>

\* the characters strftime gives for an instant in a zone, lines 56-57
TimeText(time_str) ==
    <<"2","0","2","6","-","0","1","-","0","1"," ","1","2",":","0","0",":","0">>
        \o (IF time_str.at = 1 THEN <<"1">> ELSE <<"2">>) \o <<" ">>
        \o (IF time_str.zone = "UTC" THEN <<"U","T","C">> ELSE <<"C","E","T">>)

\* json.dumps(response), line 165, as the bytes a subscriber receives: an
\* object whose "to" key on_message never reads
EchoBytes(publish) ==
    JsonBytes(JObject(JStr(sendtext),
                      JStr(current_time_prefix \o TimeText(publish.payload.payload.time)),
                      [t |-> "int", i |-> publish.payload.from]))

\* the publishes the broker routes back to the subscription of line 73
Routed(publishes) == SelectSeq(publishes, LAMBDA p : TopicMatches(p.topic))

EchoTopics ==
    {Join(<<msh, US, two, json, LongFast, gw_aabbccdd>>),
     Join(<<msh, EU_868, two, json, LongFast, gw_ffffffff>>),
     Join(<<msh, US, two, json, mqtt, gw_aabbccdd>>),
     Join(<<msh, US, two, json, mqtt, empty>>),
     Join(<<msh, US, two, json, LongFast>>)}

EchoPayloads ==
    {JsonBytes(JObject(JStr(text), JStr(hey_time_please), JInt(123456))),
     JsonBytes(JObject(JStr(text), JStr(send_TIME_now), JInt(0))),
     JsonBytes(JObject(JStr(text), JStr(hello_there), JInt(123456))),
     BadJson}

\* A message of another client is delivered
EchoExternal(topic, payload_bytes, now) ==
    /\ counts.external < MaxExternal
    /\ OnMessageStep(topic, payload_bytes, now)
    /\ origin' = "external"
    /\ counts' = [counts EXCEPT !.external = @ + 1,
                                !.published = @ + Len(result'.publishes)]
    /\ broker' = broker \o Routed(result'.publishes)
    /\ UNCHANGED probe

\* The oldest of the service's own publishes is delivered back to it
EchoOwn(now) ==
    /\ broker # <<>>
    /\ OnMessageStep(Head(broker).topic, EchoBytes(Head(broker)), now)
    /\ origin' = "own"
    /\ counts' = [counts EXCEPT !.published = @ + Len(result'.publishes)]
    /\ broker' = Tail(broker) \o Routed(result'.publishes)
    /\ UNCHANGED probe

EchoLoopNext ==
    /\ LoopNextStep
    /\ origin' = "none"
    /\ UNCHANGED <<broker, counts, probe>>

\* With the session gone the broker drops what it had not delivered
EchoDisconnect ==
    /\ DisconnectStep
    /\ broker' = <<>>
    /\ UNCHANGED <<origin, counts, probe>>

EchoNext ==
    \/ \E reason_code \in {0, 5} : Connack(reason_code)
    \/ EchoDisconnect
    \/ Reconnect
    \/ \E topic \in EchoTopics, payload_bytes \in EchoPayloads, now \in Clock :
          EchoExternal(topic, payload_bytes, now)
    \/ \E now \in Clock : EchoOwn(now)
    \/ EchoLoopNext

EchoSpec == Init /\ [][EchoNext]_vars

-----------------------------------------------------------------------------
(* The service observed over histories of messages: one call of on_message *)
(* is recorded and every later call is compared with it                    *)

MaxHistory == 3

\* what a call decided: whether it published and, if so, where and what,
\* without the clock-derived text
Decision(r) ==
    [i \in 1..Len(r.publishes) |->
        [topic |-> r.publishes[i].topic,
         from  |-> r.publishes[i].payload.from,
         to    |-> r.publishes[i].payload.to,
         type  |-> r.publishes[i].payload.type]]

HistTopics ==
    {Join(<<msh, US, two, json, LongFast, gw_aabbccdd>>),
     Join(<<msh, EU_868, two, json, LongFast, gw_nonhex>>),
     Join(<<msh, US, two, json, mqtt, gw_aabbccdd>>)}

HistPayloads ==
    {JsonBytes(JObject(JStr(text), JStr(hey_time_please), JInt(123456))),
     JsonBytes(JObject(JStr(text), JStr(send_TIME_now), JInt(0))),
     JsonBytes(JObject(JStr(text), JStr(hello_there), JInt(123456)))}

\* One more message is handled; the call may be the one that is recorded
HistMessage(topic, payload_bytes, now, record) ==
    /\ counts.external < MaxHistory
    /\ OnMessageStep(topic, payload_bytes, now)
    /\ counts' = [counts EXCEPT !.external = @ + 1]
    /\ probe' = IF record /\ probe = NoProbe
                THEN [at       |-> counts.external + 1,
                      msg      |-> msg',
                      decision |-> Decision(result')]
                ELSE probe
    /\ UNCHANGED <<broker, origin>>

HistNext ==
    \/ \E reason_code \in {0, 5} : Connack(reason_code)
    \/ Disconnect
    \/ Reconnect
    \/ \E topic \in HistTopics, payload_bytes \in HistPayloads, now \in Clock,
          record \in BOOLEAN :
          HistMessage(topic, payload_bytes, now, record)
    \/ LoopNext

HistSpec == Init /\ [][HistNext]_vars

-----------------------------------------------------------------------------
(* The service over connections: the calls the connection callbacks make   *)
(* on the client are counted                                               *)

MaxConnects == 3

ConnTopics ==
    {Join(<<msh, US, two, json, LongFast, gw_aabbccdd>>),
     Join(<<msh, US, two, json, mqtt, gw_aabbccdd>>)}

ConnPayloads ==
    {JsonBytes(JObject(JStr(text), JStr(hey_time_please), JInt(123456))),
     BadJson}

\* The broker answers a connect: on_connect runs
ConnConnack(reason_code) ==
    /\ counts.connacks < MaxConnects
    /\ ConnackStep(reason_code)
    /\ counts' = [counts EXCEPT
                    !.connacks = @ + 1,
                    !.connected = @ + (IF reason_code = 0 THEN 1 ELSE 0),
                    !.subscribes = @ + Len(on_connect(reason_code).subscribe),
                    !.callbackPublishes = @ + Len(on_connect(reason_code).publishes)]
    /\ UNCHANGED <<broker, origin, probe>>

\* The connection ends: on_disconnect runs
ConnDisconnect ==
    /\ DisconnectStep
    /\ counts' = [counts EXCEPT
                    !.subscribes = @ + Len(on_disconnect.subscribe),
                    !.callbackPublishes = @ + Len(on_disconnect.publishes)]
    /\ UNCHANGED <<broker, origin, probe>>

ConnNext ==
    \/ \E reason_code \in {0, 5} : ConnConnack(reason_code)
    \/ ConnDisconnect
    \/ Reconnect
    \/ \E topic \in ConnTopics, payload_bytes \in ConnPayloads, now \in Clock :
          OnMessage(topic, payload_bytes, now)
    \/ LoopNext

ConnSpec == Init /\ [][ConnNext]_vars

-----------------------------------------------------------------------------
(* The conversion alone, applied to identifiers of the documented form *)

RtInit ==
    /\ env = [TIME_TRIGGER |-> <<>>, TIMEZONE |-> <<>>, BOT_NODE_ID |-> <<>>]
    /\ TIME_TRIGGER = Lower(Getenv(env, "TIME_TRIGGER", bang_time))
    /\ TIMEZONE = Getenv(env, "TIMEZONE", "UTC")
    /\ BOT_NODE_ID = Getenv(env, "BOT_NODE_ID", empty)
    /\ conn = "connecting"
    /\ subscribed = FALSE
    /\ connectLog = <<>>
    /\ msg = NoMsg
    /\ result = NoResult
    /\ broker = <<>>
    /\ origin = "none"
    /\ counts = NoCounts
    /\ probe = NoProbe
    /\ \E h \in RtIds : rt = [RtIdle EXCEPT !.pc = "start", !.h = h]

RtToDecimal ==
    /\ rt.pc = "start"
    /\ rt' = [rt EXCEPT !.pc = "decimal", !.d1 = hex_node_id_to_decimal(rt.h)]
    /\ UNCHANGED <<config, conn, subscribed, connectLog, msg, result, observers>>

RtToHex ==
    /\ rt.pc = "decimal"
    /\ rt.d1.ok
    /\ rt' = [rt EXCEPT !.pc = "hex", !.h2 = hexOf(rt.d1.val)]
    /\ UNCHANGED <<config, conn, subscribed, connectLog, msg, result, observers>>

RtBack ==
    /\ rt.pc = "hex"
    /\ rt' = [rt EXCEPT !.pc = "done", !.d2 = hex_node_id_to_decimal(rt.h2)]
    /\ UNCHANGED <<config, conn, subscribed, connectLog, msg, result, observers>>

RtNext == RtToDecimal \/ RtToHex \/ RtBack

RtSpec == RtInit /\ [][RtNext]_vars

-----------------------------------------------------------------------------
(* What the claims speak about: the message just handled and what         *)
(* on_message did with it                                                  *)

Handled   == msg # NoMsg
Segs      == Split(msg.topic)
Slash     == <<"/">>

\* the payload bytes are UTF-8 and JSON
IsJson == msg.payload.enc = "json"
\* ... and the JSON value is an object
IsObject == IsJson /\ msg.payload.value.t = "object"
Data == msg.payload.value

\* a time request from node 123456, as in end-to-end scenario 1
TimeRequest == JsonBytes(JObject(JStr(text), JStr(hey_time_please), JInt(123456)))

\* the trigger word as configured, before any normalisation
ConfiguredTrigger == Getenv(env, "TIME_TRIGGER", bang_time)

-----------------------------------------------------------------------------
\* C1: a message whose topic has at least 6 segments and whose channel
\* segment is exactly "mqtt" never leads to a publish, whatever its payload,
\* sender, gateway segment and the trigger word are.
C1_OwnChannelNeverPublished ==
    (Handled /\ Len(Segs) >= 6 /\ Segs[5] = mqtt) => result.publishes = <<>>

\* a complete time request through a valid gateway, on channel mqtt
C1_Witness ==
    /\ Handled
    /\ Segs = <<msh, US, two, json, mqtt, gw_aabbccdd>>
    /\ msg.payload = TimeRequest
    /\ result.publishes = <<>>

\* C2 (as claimed): on_message publishes exactly once when the topic has at
\* least 6 segments, the channel is not "mqtt", the payload is UTF-8 JSON
\* with type "text", a string payload holding the trigger word, a "from"
\* field, and a gateway segment that starts with "!" and converts from base
\* 16; and it publishes nothing otherwise. Stated for a timezone the zone
\* database knows.
C2_Conditions ==
    /\ Len(Segs) >= 6
    /\ Segs[5] # mqtt
    /\ IsObject
    /\ Data.type.t = "str" /\ Data.type.s = text
    /\ Data.payload.t = "str"
    /\ Contains(Lower(ConfiguredTrigger), Lower(Data.payload.s))
    /\ Data.from.t \notin {"absent", "null"}
    /\ StartsWith(Segs[6], <<"!">>)
    /\ hex_node_id_to_decimal(Segs[6]).ok

C2_PublishesExactlyWhen ==
    (Handled /\ TIMEZONE \in KnownZones) =>
        Len(result.publishes) = (IF C2_Conditions THEN 1 ELSE 0)

\* C3 (as claimed): on_message returns normally for every inbound message,
\* so the loop goes on to the next message. Stated for a timezone the zone
\* database knows.
C3_NeverRaises ==
    (Handled /\ TIMEZONE \in KnownZones) =>
        (result.raised = "" /\ conn # "crashed")

\* C4 (as claimed): in every published reply "from" is the base-16 value of
\* the gateway segment with its leading "!" removed, "to" is the "from" of
\* the inbound payload and "type" is "sendtext".
C4_ReplyAddressing ==
    \A i \in 1..Len(result.publishes) :
        LET reply == result.publishes[i].payload
        IN  /\ PyInt16(Tail(Segs[6])).ok
            /\ reply.from = PyInt16(Tail(Segs[6])).val
            /\ reply.to = Data.from
            /\ reply.type = "sendtext"

\* C5: every publish goes to "msh/" + R + "/2/json/mqtt/", R being the
\* second segment of the topic of the message that triggered it.
C5_DownlinkTopic ==
    \A i \in 1..Len(result.publishes) :
        result.publishes[i].topic =
            msh \o Slash \o Segs[2] \o Slash \o two \o Slash \o json
                \o Slash \o mqtt \o Slash

\* a reply to a request from region EU_868 on channel LongFast
C5_Witness ==
    /\ Handled
    /\ Segs = <<msh, EU_868, two, json, LongFast, gw_aabbccdd>>
    /\ Len(result.publishes) = 1
    /\ result.publishes[1].topic =
          <<"m","s","h","/","E","U","_","8","6","8","/","2","/",
            "j","s","o","n","/","m","q","t","t","/">>

\* C6: a topic of fewer than 6 segments is dropped silently: nothing is
\* published, no log call is made and the handler returns, whatever the
\* payload is.
C6_ShortTopicSilent ==
    (Handled /\ Len(Segs) < 6) =>
        /\ result.publishes = <<>>
        /\ result.logs = <<>>
        /\ result.raised = ""

\* a complete time request on a topic of 5 segments
C6_Witness ==
    /\ Handled
    /\ Segs = <<msh, US, two, json, LongFast>>
    /\ msg.payload = TimeRequest
    /\ result = Return(97, <<>>)

\* C7 (as claimed): a payload that is valid UTF-8 and valid JSON but no
\* JSON object is dropped like a decode failure: one diagnostic-level log
\* call, no publish, no exception.
C7_NonObjectIsDecodeFailure ==
    (Handled /\ Len(Segs) >= 6 /\ Segs[5] # mqtt /\ IsJson /\ ~IsObject) =>
        /\ result.raised = ""
        /\ result.publishes = <<>>
        /\ result.logs = <<Log("DEBUG", 113)>>

\* C8: the rejections are tried in the order channel, type / payload,
\* trigger word, sender: the missing-sender warning is logged exactly when
\* the first three checks pass and "from" is absent or null, and then
\* nothing is published; a "from" of 0 is present, and the reply goes to 0.
C8_FirstThreePass ==
    /\ Len(Segs) >= 6
    /\ Segs[5] # mqtt
    /\ IsObject
    /\ Data.type.t = "str" /\ Data.type.s = text
    /\ Data.payload.t = "str"
    /\ Contains(TIME_TRIGGER, Lower(Data.payload.s))

C8_WarningLogged ==
    \E i \in 1..Len(result.logs) : result.logs[i] = Log("WARNING", 129)

C8_FilterOrder ==
    Handled =>
        /\ C8_WarningLogged <=> (C8_FirstThreePass /\ Data.from.t \in {"absent", "null"})
        /\ C8_WarningLogged => (result.publishes = <<>> /\ result.logs = <<Log("WARNING", 129)>>)
        /\ (/\ C8_FirstThreePass
            /\ Data.from = JInt(0)
            /\ Segs[6] = gw_aabbccdd
            /\ TIMEZONE \in KnownZones)
           => (Len(result.publishes) = 1 /\ result.publishes[1].payload.to = JInt(0))

\* end-to-end scenario 4: the trigger word without a "from" field
C8_Witness ==
    /\ Handled
    /\ Segs = <<msh, US, two, json, LongFast, gw_aabbccdd>>
    /\ msg.payload = JsonBytes(JObject(JStr(text), JStr(bang_time), Absent))
    /\ C8_WarningLogged
    /\ result.publishes = <<>>

\* C9: for every configured trigger word and every string payload text, the
\* trigger check passes (the handler gets past line 125) exactly when the
\* lower-cased trigger word is a substring of the lower-cased text.
C9_ReachesTriggerCheck ==
    /\ Len(Segs) >= 6
    /\ Segs[5] # mqtt
    /\ IsObject
    /\ Data.type.t = "str" /\ Data.type.s = text
    /\ Data.payload.t = "str"

C9_TriggerCaseInsensitive ==
    (Handled /\ C9_ReachesTriggerCheck) =>
        ((result.exit > 125) <=>
            Contains(Lower(ConfiguredTrigger), Lower(Data.payload.s)))

\* a trigger word configured in upper case, found in lower-case text
C9_Witness ==
    /\ Handled
    /\ C9_ReachesTriggerCheck
    /\ ConfiguredTrigger = bang_TIME
    /\ Data.payload.s = hey_time_please
    /\ result.exit > 125

\* C10: for every identifier h of the form "!" + 8 lower-case hex digits,
\* decimalOf(hexOf(decimalOf(h))) = decimalOf(h).
C10_RoundTrip ==
    rt.pc = "done" =>
        /\ rt.d1.ok
        /\ rt.d2.ok
        /\ rt.d2.val = rt.d1.val

\* !ffffffff -> 4294967295 -> !ffffffff -> 4294967295
C10_Witness ==
    /\ rt.pc = "done"
    /\ rt.h = gw_ffffffff
    /\ rt.d1 = [ok |-> TRUE, val |-> [neg |-> FALSE, mag |-> <<4,2,9,4,9,6,7,2,9,5>>]]
    /\ rt.h2 = gw_ffffffff
    /\ rt.d2 = rt.d1

-----------------------------------------------------------------------------
\* on_message got past the filters: the log call of line 132 was made
ReachedReply ==
    Handled /\ result.logs # <<>> /\ result.logs[1] = Log("INFO", 132)

\* "!" followed by one or more hexadecimal digits and nothing else
StrictHexId(g) ==
    /\ Len(g) >= 2
    /\ g[1] = "!"
    /\ \A i \in 2..Len(g) : IsHexChar(g[i])

\* C12 (as claimed): a reply is published only for a gateway segment that
\* is "!" followed by hex digits alone; a segment without the "!" is dropped
\* with a warning, and one with "!" and a remainder that is empty or holds a
\* character that is no hex digit is dropped with an error-level log call.
C12_OnlyStrictHexGateways ==
    /\ (result.publishes # <<>>) => StrictHexId(Segs[6])
    /\ (ReachedReply /\ ~StartsWith(Segs[6], <<"!">>)) =>
           result = Return(147, <<Log("INFO", 132), Log("WARNING", 146)>>)
    /\ (ReachedReply /\ StartsWith(Segs[6], <<"!">>) /\ ~StrictHexId(Segs[6])) =>
           result = Return(153, <<Log("INFO", 132), Log("ERROR", 152)>>)

\* C13 (as claimed): with a topic of at least 6 segments, a payload that is
\* not UTF-8 or not JSON gets the diagnostic-level log call and no publish,
\* whatever the channel segment is, "mqtt" included.
C13_DecodeBeforeFilter ==
    (Handled /\ Len(Segs) >= 6 /\ ~IsJson) =>
        /\ result.logs = <<Log("DEBUG", 113)>>
        /\ result.publishes = <<>>

\* C13 (amended): with a topic of at least 6 segments and a payload that is
\* not UTF-8 or not JSON, the channel is looked at first: on channel "mqtt"
\* the message is dropped at line 105 without any log call; on every other
\* channel the diagnostic-level log call of line 113 is made, nothing is
\* published and the handler returns.
C13_ChannelThenDecode ==
    (Handled /\ Len(Segs) >= 6 /\ ~IsJson) =>
        IF Segs[5] = mqtt
        THEN result = Return(105, <<>>)
        ELSE result = Return(114, <<Log("DEBUG", 113)>>)

\* bytes that are not UTF-8, on channel LongFast
C13_Witness ==
    /\ Handled
    /\ Segs = <<msh, US, two, json, LongFast, gw_aabbccdd>>
    /\ msg.payload = BadUtf8
    /\ result = Return(114, <<Log("DEBUG", 113)>>)

\* 2^32 = 4294967296
TwoPow32 == <<4, 2, 9, 4, 9, 6, 7, 2, 9, 6>>

\* C14 (as claimed): in every published reply "from" is a 32-bit node
\* number: not negative and below 2^32.
C14_FromIs32Bit ==
    \A i \in 1..Len(result.publishes) :
        LET from == result.publishes[i].payload.from
        IN  ~from.neg /\ MagLess(from.mag, TwoPow32)

-----------------------------------------------------------------------------
\* C11: every topic the service publishes to matches its own subscription
\* and splits into at least 6 segments with channel "mqtt"; a publish of
\* its own that comes back is rejected by the channel check (line 105)
\* without a publish; so the publishes never outnumber the messages that
\* came from other clients.
C11_NoEchoLoop ==
    /\ \A i \in 1..Len(result.publishes) :
          LET parts == Split(result.publishes[i].topic)
          IN  /\ TopicMatches(result.publishes[i].topic)
              /\ Len(parts) >= 6
              /\ parts[5] = mqtt
    /\ \A i \in 1..Len(broker) :
          Len(Split(broker[i].topic)) >= 6 /\ Split(broker[i].topic)[5] = mqtt
    /\ (Handled /\ origin = "own") => result = Return(105, <<>>)
    /\ counts.published <= counts.external

\* a reply has come back and was dropped, after two requests were answered
C11_Witness ==
    /\ Handled
    /\ origin = "own"
    /\ msg.topic = <<"m","s","h","/","U","S","/","2","/","j","s","o","n","/",
                     "m","q","t","t","/">>
    /\ result = Return(105, <<>>)
    /\ counts.external = 2
    /\ counts.published = 2

-----------------------------------------------------------------------------
\* C15: a call of on_message leaves the configuration (TIME_TRIGGER,
\* TIMEZONE, BOT_NODE_ID) as it was, and a message that was handled once
\* gets, after any further history of handled messages, the same decision:
\* published or not and, when published, the same topic, "from", "to" and
\* "type"; only the time text may differ.
C15_Stateless ==
    [][(msg = NoMsg /\ msg' # NoMsg) =>
          /\ config' = config
          /\ (probe' # NoProbe /\ msg' = probe'.msg) =>
                Decision(result') = probe'.decision]_vars

\* the recorded request was answered, and after other messages it is
\* answered again the same way at another instant
C15_Witness ==
    /\ Handled
    /\ probe # NoProbe
    /\ probe.at = 1
    /\ counts.external = 3
    /\ msg = probe.msg
    /\ Len(result.publishes) = 1
    /\ Decision(result) = probe.decision
    /\ result.publishes[1].payload.payload.time.at = 2

-----------------------------------------------------------------------------
\* C16: on_connect issues one subscribe to "msh/+/2/json/#" exactly when
\* the reason code is 0, and on_disconnect issues no subscribe and no
\* publish; so at every moment the subscribes issued are as many as the
\* successful connections, the connection callbacks have published
\* nothing, and a connected service, also a reconnected one, is subscribed.
C16_SubscriptionFollowsConnection ==
    /\ on_connect(0).subscribe = <<SubscriptionFilter>>
    /\ counts.subscribes = counts.connected
    /\ counts.callbackPublishes = 0
    /\ conn = "connected" => subscribed /\ connectLog = on_connect(0).logs
    /\ conn = "refused" => ~subscribed
    /\ conn = "disconnected" => ~subscribed

\* connected for the second time, after a refused attempt, and subscribed
\* twice
C16_Witness ==
    /\ conn = "connected"
    /\ subscribed
    /\ counts.connacks = 3
    /\ counts.connected = 2
    /\ counts.subscribes = 2

====
